---- MODULE Spec2Model ----
(***************************************************************************)
(* Logarithmic scale of babymotte/scales (src/src/logarithmic.rs).         *)
(*                                                                         *)
(* A LogarithmicScale<N, F> keeps the original bounds and an internal      *)
(* LinearScale over the log10 of the bounds.  The model instantiates       *)
(* N = F = f64, as the tests of logarithmic.rs do (line 87).               *)
(*                                                                         *)
(* f64 is modelled as a decimal fixed-point number with Unit steps per     *)
(* 1.0, together with the IEEE special values NaN, +inf and -inf.  Every   *)
(* arithmetic result is rounded to the nearest representable number, so    *)
(* that log10 and powf are NOT exact inverses of each other, as in f64.    *)
(* Results beyond MaxFin overflow to an infinity and results below one     *)
(* step underflow to zero, as in f64 (at other magnitudes).                *)
(***************************************************************************)
EXTENDS Integers, Sequences, FiniteSets, TLC

\* ------------------------------------------------------------------------
\* f64: representation
\* ------------------------------------------------------------------------

\* number of representable steps per 1.0 (the precision of the format)
Unit == 10^4

\* largest finite magnitude, in steps (100000.0)
MaxFin == 10^9

\* 10^(1/2), 10^(1/4), ..., 10^(1/2^13), in steps
Roots == <<31623, 17783, 13335, 11548, 10746, 10366, 10182,
           10090, 10045, 10023, 10011, 10006, 10003>>

\* number of binary fraction digits log10 and powf work with (2^13 < Unit)
FracBits == Len(Roots)

TwoPowFracBits == 2^FracBits

NaN == [k |-> "nan", v |-> 0]

PInf == [k |-> "pinf", v |-> 0]

NInf == [k |-> "ninf", v |-> 0]

\* the finite number v / Unit; out-of-range magnitudes overflow to infinity
Fin(v) ==
    IF v > MaxFin THEN PInf
    ELSE IF v < -MaxFin THEN NInf
    ELSE [k |-> "fin", v |-> v]

\* the f64 literal i.0
Lit(i) == Fin(i * Unit)

Zero == Lit(0)

One == Lit(1)

IsNaN(x) == x.k = "nan"

IsFinite(x) == x.k = "fin"

IsInfinite(x) == x.k \in {"pinf", "ninf"}

Abs(i) == IF i < 0 THEN -i ELSE i

\* -1, 0 or 1 (a zero has no sign in this model)
Sign(x) ==
    CASE x.k = "pinf" -> 1
      [] x.k = "ninf" -> -1
      [] x.k = "fin" -> (IF x.v > 0 THEN 1 ELSE IF x.v < 0 THEN -1 ELSE 0)
      [] OTHER -> 0

InfOfSign(s) == IF s < 0 THEN NInf ELSE PInf

\* IEEE comparisons: every comparison with NaN is false
FLt(a, b) ==
    /\ ~IsNaN(a)
    /\ ~IsNaN(b)
    /\ CASE a.k = "ninf" -> b.k # "ninf"
         [] a.k = "pinf" -> FALSE
         [] OTHER -> (b.k = "pinf" \/ (b.k = "fin" /\ a.v < b.v))

FLe(a, b) == ~IsNaN(a) /\ ~IsNaN(b) /\ (a = b \/ FLt(a, b))

\* ------------------------------------------------------------------------
\* f64: arithmetic, rounded to the nearest step
\* ------------------------------------------------------------------------

FNeg(a) ==
    CASE a.k = "pinf" -> NInf
      [] a.k = "ninf" -> PInf
      [] a.k = "fin" -> Fin(-a.v)
      [] OTHER -> NaN

FAdd(a, b) ==
    IF IsNaN(a) \/ IsNaN(b) THEN NaN
    ELSE IF IsInfinite(a) /\ IsInfinite(b) THEN (IF a = b THEN a ELSE NaN)
    ELSE IF IsInfinite(a) THEN a
    ELSE IF IsInfinite(b) THEN b
    ELSE Fin(a.v + b.v)

FSub(a, b) == FAdd(a, FNeg(b))

\* a * b / Unit for magnitudes a >= b >= 0, rounded; MaxFin + 1 on overflow.
\* The product is formed in parts so that no part exceeds 32 bits.
MulMag(a, b) ==
    LET b1 == b \div Unit
        b0 == b % Unit
        a1 == a \div Unit
        a0 == a % Unit
    IN  IF b1 > 0 /\ a > MaxFin \div b1 THEN MaxFin + 1
        ELSE a * b1 + a1 * b0 + ((a0 * b0 + Unit \div 2) \div Unit)

FMul(a, b) ==
    IF IsNaN(a) \/ IsNaN(b) THEN NaN
    ELSE IF IsInfinite(a) \/ IsInfinite(b)
         THEN (IF Sign(a) * Sign(b) = 0 THEN NaN ELSE InfOfSign(Sign(a) * Sign(b)))
    ELSE LET x == Abs(a.v)
             y == Abs(b.v)
             m == IF x >= y THEN MulMag(x, y) ELSE MulMag(y, x)
         IN  Fin(Sign(a) * Sign(b) * m)

RECURSIVE DivDigits(_, _, _, _)
\* long division: the quotient q and remainder r so far, one decimal digit
\* for each factor of 10 in u, the last digit rounded
DivDigits(q, r, b, u) ==
    IF u = 1 THEN (IF 2 * r >= b THEN q + 1 ELSE q)
    ELSE IF q > MaxFin \div 10 THEN MaxFin + 1
    ELSE DivDigits(q * 10 + ((r * 10) \div b), (r * 10) % b, b, u \div 10)

\* a * Unit / b for magnitudes a >= 0, b > 0, rounded; MaxFin + 1 on overflow.
\* No part exceeds 32 bits: a divisor above 10000.0 is divided, with the
\* dividend, by 10 first.
DivMag(a, b) ==
    LET big == b > 10^8
        x == IF big THEN (a + 5) \div 10 ELSE a
        y == IF big THEN (b + 5) \div 10 ELSE b
    IN  DivDigits(x \div y, x % y, y, Unit)

FDiv(a, b) ==
    IF IsNaN(a) \/ IsNaN(b) THEN NaN
    ELSE IF IsInfinite(a)
         THEN (IF IsInfinite(b) THEN NaN
               ELSE InfOfSign(Sign(a) * (IF Sign(b) < 0 THEN -1 ELSE 1)))
    ELSE IF IsInfinite(b) THEN Zero
    ELSE IF b.v = 0
         THEN (IF a.v = 0 THEN NaN ELSE InfOfSign(Sign(a)))
    ELSE Fin(Sign(a) * Sign(b) * DivMag(Abs(a.v), Abs(b.v)))

\* f64::max and f64::min: a NaN operand is ignored
FMax(a, b) ==
    IF IsNaN(a) THEN b
    ELSE IF IsNaN(b) THEN a
    ELSE IF FLt(a, b) THEN b ELSE a

FMin(a, b) ==
    IF IsNaN(a) THEN b
    ELSE IF IsNaN(b) THEN a
    ELSE IF FLt(b, a) THEN b ELSE a

\* f64::round: to the nearest whole number, halves away from zero
FRound(a) ==
    IF ~IsFinite(a) THEN a
    ELSE Fin(Sign(a) * ((Abs(a.v) + Unit \div 2) \div Unit) * Unit)

\* ------------------------------------------------------------------------
\* f64::log10 and 10f64.powf
\* ------------------------------------------------------------------------

RECURSIVE NormDown(_, _)
\* <<mantissa in [Unit, 10 Unit), decimal exponent>> of a magnitude >= Unit
NormDown(y, n) ==
    IF y >= 10 * Unit THEN NormDown((y + 5) \div 10, n + 1) ELSE <<y, n>>

RECURSIVE NormUp(_, _)
\* the same for a magnitude in (0, Unit)
NormUp(y, n) ==
    IF y < Unit THEN NormUp(y * 10, n - 1) ELSE <<y, n>>

RECURSIVE LogBits(_, _, _)
\* the FracBits binary digits of log10(y / Unit), y in [Unit, 10 Unit), by
\* repeated squaring
LogBits(y, f, i) ==
    IF i = FracBits THEN f
    ELSE LET y2 == MulMag(y, y)
         IN  IF y2 >= 10 * Unit
             THEN LogBits((y2 + 5) \div 10, 2 * f + 1, i + 1)
             ELSE LogBits(y2, 2 * f, i + 1)

\* f64::log10: -inf at zero, NaN below zero
FLog10(a) ==
    CASE a.k = "nan" -> NaN
      [] a.k = "ninf" -> NaN
      [] a.k = "pinf" -> PInf
      [] OTHER ->
            IF a.v < 0 THEN NaN
            ELSE IF a.v = 0 THEN NInf
            ELSE LET nm == IF a.v >= Unit THEN NormDown(a.v, 0) ELSE NormUp(a.v, 0)
                     f == LogBits(nm[1], 0, 0)
                 IN  Fin(nm[2] * Unit
                         + ((f * Unit + TwoPowFracBits \div 2) \div TwoPowFracBits))

RECURSIVE PowBits(_, _, _)
\* the product of the roots selected by the binary digits of f
PowBits(y, f, i) ==
    IF i > FracBits THEN y
    ELSE LET bit == (f \div 2^(FracBits - i)) % 2
         IN  PowBits(IF bit = 1 THEN MulMag(Roots[i], y) ELSE y, f, i + 1)

RECURSIVE ScaleUp(_, _)
ScaleUp(y, n) ==
    IF n = 0 THEN y
    ELSE IF y > MaxFin \div 10 THEN MaxFin + 1
    ELSE ScaleUp(y * 10, n - 1)

RECURSIVE ScaleDown(_, _)
ScaleDown(y, n) ==
    IF n = 0 \/ y = 0 THEN y ELSE ScaleDown((y + 5) \div 10, n - 1)

\* 10f64.powf(a)
FPow10(a) ==
    CASE a.k = "nan" -> NaN
      [] a.k = "ninf" -> Zero
      [] a.k = "pinf" -> PInf
      [] OTHER ->
            LET n0 == a.v \div Unit
                f0 == (((a.v % Unit) * TwoPowFracBits) + Unit \div 2) \div Unit
                n == IF f0 = TwoPowFracBits THEN n0 + 1 ELSE n0
                f == IF f0 = TwoPowFracBits THEN 0 ELSE f0
                m == PowBits(Unit, f, 1)
            IN  IF n >= 0 THEN Fin(ScaleUp(m, n)) ELSE Fin(ScaleDown(m, -n))

\* ------------------------------------------------------------------------
\* convert.rs: the numeric conversion bridge, for N = F = f64
\* ------------------------------------------------------------------------

\* ToFloat<F>::to_float: N -> F and F -> f64; for f64 the value itself
to_float(n) == n

\* FromFloat<F>::from_float: f64 -> F and F -> N; for f64 the value itself
from_float(f) == f

\* the call fun(x) of the closure handed to apply_to: f64::log10 or
\* |f| 10f64.powf(f)
call_fun(fun, x) ==
    CASE fun = "log10" -> FLog10(x)
      [] fun = "powf" -> FPow10(x)

\* apply_to: N -> F -> f64, fun, f64 -> F -> N
apply_to(n, fun) == from_float(from_float(call_fun(fun, to_float(to_float(n)))))

\* ------------------------------------------------------------------------
\* linear.rs: LinearScale
\* ------------------------------------------------------------------------

\* the rasterizers a caller may supply: f64::round, and rounding to tens
Rasterizers == {"round", "tens"}

\* the call rasterizer(n) of the stored closure
Rasterize(rasterizer, n) ==
    CASE rasterizer = "round" -> FRound(n)
      [] rasterizer = "tens" -> FMul(FRound(FDiv(n, Lit(10))), Lit(10))
      [] OTHER -> n

LinearScale_with_min_max(min, max) ==
    [min |-> min, max |-> max, rasterizer |-> "none"]

LinearScale_with_min_max_and_rasterizer(min, max, rasterizer) ==
    [min |-> min, max |-> max, rasterizer |-> rasterizer]

\* (absolute - min) / (max - min)
LinearScale_to_relative(self, absolute) ==
    LET min == to_float(to_float(self.min))
        max == to_float(to_float(self.max))
        abs == to_float(to_float(absolute))
    IN  from_float(FDiv(FSub(abs, min), FSub(max, min)))

\* min + relative * (max - min), then the rasterizer if there is one
LinearScale_to_absolute(self, relative) ==
    LET min == to_float(to_float(self.min))
        max == to_float(to_float(self.max))
        rel == to_float(relative)
        abs == from_float(from_float(FAdd(min, FMul(rel, FSub(max, min)))))
    IN  IF self.rasterizer = "none" THEN abs ELSE Rasterize(self.rasterizer, abs)

\* ------------------------------------------------------------------------
\* logarithmic.rs: LogarithmicScale
\* ------------------------------------------------------------------------

\* a constructor that forgets the log10 of the bounds
with_min_max_raw(min, max) ==
    [min |-> min, max |-> max, linear_delegate |-> LinearScale_with_min_max(min, max)]

with_min_max(min, max) ==
    [min |-> min,
     max |-> max,
     linear_delegate |->
        LinearScale_with_min_max(apply_to(min, "log10"), apply_to(max, "log10"))]

with_min_max_and_rasterizer(min, max, rasterizer) ==
    [min |-> min,
     max |-> max,
     linear_delegate |->
        LinearScale_with_min_max_and_rasterizer(
            apply_to(min, "log10"), apply_to(max, "log10"), rasterizer)]

\* a to_relative that coerces undefined inputs to 0.0
to_relative_guarded(self, absolute) ==
    IF FLe(absolute, Zero) THEN Zero
    ELSE LinearScale_to_relative(self.linear_delegate, apply_to(absolute, "log10"))

\* a to_relative that forgets the log10 of its argument
to_relative_nolog(self, absolute) ==
    LinearScale_to_relative(self.linear_delegate, absolute)

to_relative(self, absolute) ==
    LET abs_log == apply_to(absolute, "log10")
    IN  LinearScale_to_relative(self.linear_delegate, abs_log)

\* a to_absolute that forgets to exponentiate
to_absolute_nopow(self, relative) ==
    LinearScale_to_absolute(self.linear_delegate, relative)

\* a to_absolute that interpolates between the original bounds
to_absolute_linear(self, relative) ==
    FAdd(self.min, FMul(relative, FSub(self.max, self.min)))

\* a to_absolute that clamps its argument
to_absolute_clamping(self, relative) ==
    apply_to(LinearScale_to_absolute(self.linear_delegate, FMin(One, FMax(Zero, relative))),
             "powf")

to_absolute(self, relative) ==
    LET abs_log == LinearScale_to_absolute(self.linear_delegate, relative)
    IN  apply_to(abs_log, "powf")

get_max(self) == self.max

\* a get_min that reports the delegate's bound
get_min_delegate(self) == self.linear_delegate.min

get_min(self) == self.min

\* ------------------------------------------------------------------------
\* lib.rs: the clamped variants the Scale trait derives from the two above
\* ------------------------------------------------------------------------

\* f64::min(1.0, f64::max(0.0, x)): NaN and -inf clamp to 0.0
Clamp01(x) == FMin(One, FMax(Zero, x))

\* the relative value is clamped before it is mapped
to_clamped_absolute(self, relative) ==
    to_absolute(self, from_float(Clamp01(to_float(relative))))

\* the mapped relative value is clamped
to_clamped_relative(self, absolute) ==
    from_float(Clamp01(to_float(to_relative(self, absolute))))

\* ------------------------------------------------------------------------
\* The state machine: one scale, constructed once, and its callers
\* ------------------------------------------------------------------------

\* absolute arguments go up to 10 * 2^MaxDoublings
MaxDoublings == 11

\* relative arguments reach RelOver twentieths below 0.0 and above 1.0
RelOver == 4

\* threads that may hold the scale
Callers == {"c1", "c2"}

\* the (min, max) pairs a scale is constructed with: positive, min < max
ScaleBounds == {<<10, 10240>>, <<1, 7>>, <<1, 1000>>, <<5, 20>>, <<3, 20240>>}

AbsInputs ==
    {Lit(-300), Lit(-1), Zero, Fin(Unit \div 2), Lit(1), Lit(3), Lit(5), Lit(7),
     Lit(333), Lit(1000), Lit(20240)}
        \cup {Lit(10 * 2^k) : k \in 0..MaxDoublings}

RelInputs ==
    {Lit(-2), Lit(-1), Lit(3)}
        \cup {Fin(k * (Unit \div 20)) : k \in (-RelOver)..(20 + RelOver)}

\* the arguments used while two threads share the scale
SharedAbsInputs == {Lit(-1), Zero, Lit(5), Lit(10), Lit(1000)}

SharedRelInputs == {Lit(-1), Zero, Fin(Unit \div 2), One, Fin(12 * (Unit \div 10))}

NoCall == [op |-> "none", arg |-> Zero, res |-> Zero]

VARIABLES
    scale,  \* the LogarithmicScale: min, max, linear_delegate
    ctor,   \* the arguments the scale was constructed with
    calls   \* per caller: the last call it made, its argument and its result

vars == <<scale, ctor, calls>>

\* LogarithmicScale::with_min_max or ::with_min_max_and_rasterizer
Init ==
    \E b \in ScaleBounds, r \in {"none"} \cup Rasterizers :
        /\ ctor = [min |-> Lit(b[1]), max |-> Lit(b[2]), rasterizer |-> r]
        /\ scale = IF r = "none"
                   THEN with_min_max(Lit(b[1]), Lit(b[2]))
                   ELSE with_min_max_and_rasterizer(Lit(b[1]), Lit(b[2]), r)
        /\ calls = [c \in Callers |-> NoCall]

\* a method that keeps its result in the scale
ReturnedAndStored(c, op, arg, res) ==
    /\ calls' = [calls EXCEPT ![c] = [op |-> op, arg |-> arg, res |-> res]]
    /\ scale' = [scale EXCEPT !.max = res]
    /\ UNCHANGED ctor

\* the methods take &self: the call's result is recorded, the scale is left alone
Returned(c, op, arg, res) ==
    /\ calls' = [calls EXCEPT ![c] = [op |-> op, arg |-> arg, res |-> res]]
    /\ UNCHANGED <<scale, ctor>>

CallToRelative(c, absolute) ==
    Returned(c, "to_relative", absolute, to_relative(scale, absolute))

CallToAbsolute(c, relative) ==
    Returned(c, "to_absolute", relative, to_absolute(scale, relative))

CallToClampedRelative(c, absolute) ==
    Returned(c, "to_clamped_relative", absolute, to_clamped_relative(scale, absolute))

CallToClampedAbsolute(c, relative) ==
    Returned(c, "to_clamped_absolute", relative, to_clamped_absolute(scale, relative))

CallGetMin(c) == Returned(c, "get_min", Zero, get_min(scale))

CallGetMax(c) == Returned(c, "get_max", Zero, get_max(scale))

\* any one call by caller c
Call(c, absolutes, relatives) ==
    \/ \E a \in absolutes : CallToRelative(c, a)
    \/ \E r \in relatives : CallToAbsolute(c, r)
    \/ \E a \in absolutes : CallToClampedRelative(c, a)
    \/ \E r \in relatives : CallToClampedAbsolute(c, r)
    \/ CallGetMin(c)
    \/ CallGetMax(c)

\* one thread owns the scale and calls it any number of times
Next == Call("c1", AbsInputs, RelInputs)

Spec == Init /\ [][Next]_vars

\* two threads hold the same scale and call it in any interleaving
NextShared == \E c \in Callers : Call(c, SharedAbsInputs, SharedRelInputs)

SpecShared == Init /\ [][NextShared]_vars

\* ------------------------------------------------------------------------
\* Properties
\* ------------------------------------------------------------------------

\* the scale was built by with_min_max: there is no rasterizer
Plain == ctor.rasterizer = "none"

\* relative positions agree within 0.001
ApproxRel(x, y) == IsFinite(x) /\ IsFinite(y) /\ Abs(x.v - y.v) <= Unit \div 1000

Larger(i, j) == IF i >= j THEN i ELSE j

\* absolute values agree within 0.2 % of their magnitude (and one step)
ApproxAbs(x, y) ==
    /\ IsFinite(x)
    /\ IsFinite(y)
    /\ Abs(x.v - y.v) <= Larger(Abs(x.v), Abs(y.v)) \div 500 + 1

\* 10^(log10(min) + r * (log10(max) - log10(min))) of the constructor's bounds
LogFormula(r) ==
    FPow10(FAdd(FLog10(ctor.min),
                FMul(r, FSub(FLog10(ctor.max), FLog10(ctor.min)))))

\* (log10(a) - log10(min)) / (log10(max) - log10(min)) of the constructor's bounds
RelFormula(a) ==
    FDiv(FSub(FLog10(a), FLog10(ctor.min)),
         FSub(FLog10(ctor.max), FLog10(ctor.min)))

\* C1 (as claimed): with a rasterizer, to_absolute(r) is the rasterizer applied
\* to the exponentiated value 10^(log10(min) + r * (log10(max) - log10(min))).
C1_RasterizerOnFinalValue ==
    \A c \in Callers :
        (calls[c].op = "to_absolute" /\ ~Plain)
            => calls[c].res = Rasterize(ctor.rasterizer, LogFormula(calls[c].arg))

\* C2: get_min and get_max return the bounds given to the constructor, never
\* the log10 bounds of the delegate, whatever was called before.
C2_GetReturnsOriginalBounds ==
    \A c \in Callers :
        /\ calls[c].op = "get_min"
              => (calls[c].res = ctor.min /\ calls[c].res # scale.linear_delegate.min)
        /\ calls[c].op = "get_max"
              => (calls[c].res = ctor.max /\ calls[c].res # scale.linear_delegate.max)

C2_Witness ==
    \E c \in Callers :
        /\ calls[c].op = "get_min"
        /\ calls[c].res = Lit(10)
        /\ scale.linear_delegate.min = One
        /\ ~Plain

\* C3 (as claimed): to_relative(min) = 0, to_relative(max) = 1,
\* to_absolute(0) = min and to_absolute(1) = max, exactly.
C3_BoundaryExact ==
    Plain =>
        \A c \in Callers :
            /\ (calls[c].op = "to_relative" /\ calls[c].arg = ctor.min)
                  => calls[c].res = Zero
            /\ (calls[c].op = "to_relative" /\ calls[c].arg = ctor.max)
                  => calls[c].res = One
            /\ (calls[c].op = "to_absolute" /\ calls[c].arg = Zero)
                  => calls[c].res = ctor.min
            /\ (calls[c].op = "to_absolute" /\ calls[c].arg = One)
                  => calls[c].res = ctor.max

\* C3 (amended): without a rasterizer, to_relative(min) = 0 and
\* to_relative(max) = 1 exactly, while to_absolute(0) and to_absolute(1) are
\* min and max up to the rounding of log10 followed by powf.
C3_BoundaryWithinRounding ==
    Plain =>
        \A c \in Callers :
            /\ (calls[c].op = "to_relative" /\ calls[c].arg = ctor.min)
                  => calls[c].res = Zero
            /\ (calls[c].op = "to_relative" /\ calls[c].arg = ctor.max)
                  => calls[c].res = One
            /\ (calls[c].op = "to_absolute" /\ calls[c].arg = Zero)
                  => ApproxAbs(calls[c].res, ctor.min)
            /\ (calls[c].op = "to_absolute" /\ calls[c].arg = One)
                  => ApproxAbs(calls[c].res, ctor.max)

C3_Witness ==
    /\ Plain
    /\ \E c \in Callers :
          /\ calls[c].op = "to_absolute"
          /\ calls[c].arg = One
          /\ calls[c].res # ctor.max
          /\ ApproxAbs(calls[c].res, ctor.max)

\* C4: without a rasterizer, to_relative(to_absolute(r)) is r within tolerance
\* for r in [0, 1], and to_absolute(to_relative(a)) is a within tolerance for
\* a in [min, max].
C4_RoundTrip ==
    Plain =>
        \A c \in Callers :
            /\ (/\ calls[c].op = "to_absolute"
                /\ FLe(Zero, calls[c].arg)
                /\ FLe(calls[c].arg, One))
                  => ApproxRel(to_relative(scale, calls[c].res), calls[c].arg)
            /\ (/\ calls[c].op = "to_relative"
                /\ FLe(ctor.min, calls[c].arg)
                /\ FLe(calls[c].arg, ctor.max))
                  => ApproxAbs(to_absolute(scale, calls[c].res), calls[c].arg)

C4_Witness ==
    /\ Plain
    /\ \E c \in Callers :
          /\ calls[c].op = "to_relative"
          /\ calls[c].arg = Lit(333)
          /\ FLt(Zero, calls[c].res)
          /\ FLt(calls[c].res, One)
          /\ to_absolute(scale, calls[c].res) # calls[c].arg

\* C5 (as claimed): to_clamped_relative stays within [0, 1] and, without a
\* rasterizer, to_clamped_absolute stays within [min, max], for every finite
\* argument.
C5_ClampedWithinBounds ==
    \A c \in Callers :
        /\ calls[c].op = "to_clamped_relative"
              => (FLe(Zero, calls[c].res) /\ FLe(calls[c].res, One))
        /\ (calls[c].op = "to_clamped_absolute" /\ Plain)
              => (FLe(ctor.min, calls[c].res) /\ FLe(calls[c].res, ctor.max))

\* 10 * 2^k
Doubled(k) == IF k >= 0 THEN Lit(10 * 2^k) ELSE Fin((10 * Unit) \div 2^(-k))

Tenths(k) == Fin(k * (Unit \div 10))

\* the relative increments the ratio is compared over
Increments == {Fin(Unit \div 20), Tenths(1), Tenths(5), One}

C7_UndefinedInputPropagates ==
    \A c \in Callers :
        calls[c].op = "to_relative" =>
            /\ calls[c].arg = Zero => calls[c].res = NInf
            /\ FLt(calls[c].arg, Zero) => IsNaN(calls[c].res)

C7_Witness ==
    \E c \in Callers :
        /\ calls[c].op = "to_relative"
        /\ calls[c].arg = Lit(-300)
        /\ IsNaN(calls[c].res)

\* C8: outside the nominal domain the same formulas continue: to_absolute(r)
\* is 10^(log10(min) + r * (log10(max) - log10(min))), below min for r < 0 and
\* above max for r > 1; to_relative(a) of a positive a is
\* (log10(a) - log10(min)) / (log10(max) - log10(min)), negative for a < min
\* and above 1 for a > max; neither fails.
C8_Extrapolation ==
    Plain =>
        \A c \in Callers :
            /\ calls[c].op = "to_absolute" =>
                  /\ calls[c].res = LogFormula(calls[c].arg)
                  /\ ~IsNaN(calls[c].res)
                  /\ FLt(calls[c].arg, Zero) => FLt(calls[c].res, ctor.min)
                  /\ FLt(One, calls[c].arg) => FLt(ctor.max, calls[c].res)
            /\ (calls[c].op = "to_relative" /\ FLt(Zero, calls[c].arg)) =>
                  /\ calls[c].res = RelFormula(calls[c].arg)
                  /\ IsFinite(calls[c].res)
                  /\ FLt(calls[c].arg, ctor.min) => FLt(calls[c].res, Zero)
                  /\ FLt(ctor.max, calls[c].arg) => FLt(One, calls[c].res)

C8_Witness ==
    /\ Plain
    /\ \E c \in Callers :
          /\ calls[c].op = "to_absolute"
          /\ calls[c].arg = Tenths(11)
          /\ IsFinite(calls[c].res)
          /\ FLt(ctor.max, calls[c].res)

\* the scale as the constructor left it
Constructed ==
    IF Plain
    THEN with_min_max(ctor.min, ctor.max)
    ELSE with_min_max_and_rasterizer(ctor.min, ctor.max, ctor.rasterizer)

\* the result of the call op(arg) on the scale self
Result(self, op, arg) ==
    CASE op = "to_relative" -> to_relative(self, arg)
      [] op = "to_absolute" -> to_absolute(self, arg)
      [] op = "to_clamped_relative" -> to_clamped_relative(self, arg)
      [] op = "to_clamped_absolute" -> to_clamped_absolute(self, arg)
      [] op = "get_min" -> get_min(self)
      [] op = "get_max" -> get_max(self)
      [] OTHER -> Zero

\* C9: no call changes the scale: after any interleaving of calls by the
\* threads that share it, the bounds, the delegate and the rasterizer are as
\* constructed, and each call returned what it returns on the fresh scale.
C9_ImmutableAfterConstruction ==
    /\ scale = Constructed
    /\ \A c \in Callers :
          calls[c].res = Result(Constructed, calls[c].op, calls[c].arg)

C9_Witness ==
    /\ calls["c1"].op = "to_clamped_absolute"
    /\ calls["c2"].op = "get_max"
    /\ calls["c2"].res = ctor.max
    /\ ~Plain

\* C10: to_clamped_relative(a) is exactly 0 for every a below min, 0 and the
\* negative numbers included, and is never NaN or infinite.
C10_ClampedRelativeBelowMin ==
    \A c \in Callers :
        calls[c].op = "to_clamped_relative" =>
            /\ IsFinite(calls[c].res)
            /\ FLt(calls[c].arg, ctor.min) => calls[c].res = Zero

C10_Witness ==
    \E c \in Callers :
        /\ calls[c].op = "to_clamped_relative"
        /\ calls[c].arg = Lit(-1)
        /\ IsNaN(to_relative(scale, calls[c].arg))
        /\ calls[c].res = Zero

====
